---- MODULE Spec2Model ----
(***************************************************************************)
(* Model of MEDnetwork_Sim.py: a discrete-event simulation (SimPy) of a    *)
(* network of clinics.  Customers queue for one shared counter (a          *)
(* simpy.Resource of capacity 1), take medication from their clinic's      *)
(* simpy.Container and pay; one clinic_control process per clinic polls    *)
(* the level and sends a delivery_truck that refills the container.        *)
(*                                                                         *)
(* The state is the environment's event queue (ordered by time, priority   *)
(* and insertion), the resource, the containers and the position of every  *)
(* process.  One action models the processing of one event: all callbacks  *)
(* of the event, each resumed process running up to its next yield.        *)
(***************************************************************************)
EXTENDS Integers, Sequences, FiniteSets, TLC

VARIABLES
    now,        \* env.now
    queue,      \* env._queue, kept in the order (time, priority, insertion)
    running,    \* TRUE while env0.run(until=...) has not returned
    crashed,    \* TRUE once an exception has escaped a process
    level,      \* level[c]: medication.level of clinic c
    getq,       \* getq[c]: the container's get_queue (pending gets)
    putq,       \* putq[c]: the container's put_queue (pending puts)
    users,      \* clinic.users: the requests holding the counter
    reqq,       \* clinic.put_queue: requests waiting for the counter
    control,    \* control[c]: position of clinic_control(env, clinic c)
    truck,      \* truck[c]: position of the delivery_truck of clinic c
    nextCust,   \* nextCust[c]: the i of customer_generator of clinic c
    cust,       \* cust[<<c, i>>]: position and locals of 'Customer i' of c,
                \* from the start of its process to its end
    nreq,       \* history: number of clinic.request() calls so far
    dispatched, \* history: dispatched[c], the level clinic_control saw when
                \* it called the truck that is under way (-1: no truck)
    restock,    \* restock[c]: amount, the local of the truck of clinic c
                \* (0: not computed yet, or no truck)
    last,       \* history: the event processed by the last step (in
                \* ContainerSpec also the call made by the last step)
    steps       \* history: the number of events processed (calls of step())

vars == <<now, queue, running, crashed, level, getq, putq, users, reqq,
          control, truck, nextCust, cust, nreq, dispatched, restock, last,
          steps>>

----------------------------------------------------------------------------
(* Configuration (module level constants of the program) *)

clinic_med_supply == 100
THRESHOLD == 10
amount_customer_min == 1
amount_customer_max == 10
medication_buying_speed == 1
time_to_deliver == <<100, 200>>
time_to_deliver_reroute == <<200, 400>>
time_to_deliver_traffic == <<400, 600>>
customer_arrival_min == 10
customer_arrival_max == 300
check_interval == 500
simulation_time == 1000
counter_capacity == 1

(* Bounds of the model *)

\* customers each customer_generator starts before the model stops it
MaxCustomers == 12

\* gets pending on the container of ContainerSpec
MaxPending == 3

\* the time up to which events are processed when the run has no horizon
MaxTime == 2000

\* the clinics modelled (the program builds five identical ones)
NumClinics == 2

Clinics == 0 .. (NumClinics - 1)

\* mutant of AmountChoices: amounts above the threshold can be drawn
AmountChoicesAboveThreshold == {amount_customer_max, amount_customer_max + 2}

\* the amounts a customer may draw (line 51), of amount_customer
AmountChoices == {amount_customer_max - 1, amount_customer_max}

\* the intervals a generator may draw (line 93), of customer_arrival_times
ArrivalChoices == {4 * customer_arrival_min}

\* simpy's event priorities: starting a process is URGENT, everything else
\* this program schedules is NORMAL
URGENT == 0
NORMAL == 1

----------------------------------------------------------------------------
(* The event queue *)

\* an event; eid is its ordinal, set when it is scheduled (-1 before)
Event(t, p, k, c, i) ==
    [time |-> t, prio |-> p, kind |-> k, clinic |-> c, idx |-> i, eid |-> -1]

\* events e and f are the same but for their ordinal
SameEvent(e, f) == [e EXCEPT !.eid = -1] = [f EXCEPT !.eid = -1]

\* mutant of NotAfter: an event sorts ahead of the queued events of its own
\* time and priority
NotAfterStrict(e, f) ==
    \/ e.time < f.time
    \/ e.time = f.time /\ e.prio < f.prio

\* event e sorts no later than event f by (time, priority)
NotAfter(e, f) ==
    \/ e.time < f.time
    \/ e.time = f.time /\ e.prio <= f.prio

\* next(env._eid): the ordinals count the events scheduled so far, those
\* processed (the one being processed included) and those in the queue q
NextEid(q) == steps' + Len(q) + 1

\* heappush of (time, priority, next eid, event): the new event goes behind
\* every queued event of the same or an earlier (time, priority)
Schedule(q, e) ==
    LET n == Cardinality({k \in 1 .. Len(q) : NotAfter(q[k], e)})
    IN  SubSeq(q, 1, n) \o <<[e EXCEPT !.eid = NextEid(q)]>>
            \o SubSeq(q, n + 1, Len(q))

RECURSIVE ScheduleAll(_, _)
ScheduleAll(q, es) ==
    IF es = <<>> THEN q ELSE ScheduleAll(Schedule(q, Head(es)), Tail(es))

----------------------------------------------------------------------------
(* simpy.Resource(env0, 1): the shared counter *)

\* mutant of HasRoom: the free slot is not checked
HasRoomUnchecked(us) == TRUE

\* Resource._do_put: a request is granted while a slot is free
HasRoom(us) == Len(us) < counter_capacity

\* mutant of ResourceTriggerPut: the request that came last is granted
ResourceTriggerPutLast(us, rq) ==
    IF rq # <<>> /\ HasRoom(us)
    THEN [users |-> Append(us, rq[Len(rq)]), reqq |-> SubSeq(rq, 1, Len(rq) - 1),
          granted |-> <<rq[Len(rq)]>>]
    ELSE [users |-> us, reqq |-> rq, granted |-> <<>>]

\* BaseResource._trigger_put of the resource: only the head of the wait
\* queue is looked at (Resource._do_put returns None, so the scan stops)
ResourceTriggerPut(us, rq) ==
    IF rq # <<>> /\ HasRoom(us)
    THEN [users |-> Append(us, Head(rq)), reqq |-> Tail(rq),
          granted |-> <<Head(rq)>>]
    ELSE [users |-> us, reqq |-> rq, granted |-> <<>>]

\* mutant of GrantEvents: a granted request is woken ahead of the events
\* already queued for the same time
GrantEventsUrgent(t, granted) ==
    [k \in 1 .. Len(granted) |->
        Event(t, URGENT, "ReqGranted", granted[k][1], granted[k][2])]

\* Request.succeed(): the events of the requests a trigger has granted
GrantEvents(t, granted) ==
    [k \in 1 .. Len(granted) |->
        Event(t, NORMAL, "ReqGranted", granted[k][1], granted[k][2])]

\* clinic.request(): the request joins the wait queue, then the queue is
\* triggered
ResourceRequest(us, rq, x) == ResourceTriggerPut(us, Append(rq, x))

\* mutant of ResourceRelease: the request is not released at the exit
ResourceReleaseNone(us, x) == us

\* clinic.release(req) at the exit of the with block: Release._do_get
\* removes the request from users
ResourceRelease(us, x) == SelectSeq(us, LAMBDA u : u # x)

----------------------------------------------------------------------------
(* simpy.Container(env0, clinic_med_supply, init=clinic_med_supply) *)

\* mutant of CanGet: the level is not compared with the amount
CanGetUnchecked(lv, amount) == TRUE

\* Container._do_get: a get is served when the level covers its amount
CanGet(lv, amount) == lv >= amount

\* mutant of CanPut: the free room is not compared with the amount
CanPutUnchecked(lv, amount) == TRUE

\* Container._do_put: a put is served when the free room covers its amount
CanPut(lv, amount) == clinic_med_supply - lv >= amount

\* mutant of ScanGet: every pending get the level covers is served, also
\* behind one that is not
RECURSIVE ScanGetAny(_, _, _)
ScanGetAny(lv, q, served) ==
    IF q = <<>> THEN [level |-> lv, queue |-> q, served |-> served]
    ELSE IF CanGet(lv, Head(q).amount)
         THEN ScanGetAny(lv - Head(q).amount, Tail(q), Append(served, Head(q)))
         ELSE LET r == ScanGetAny(lv, Tail(q), served)
              IN  [level |-> r.level, queue |-> <<Head(q)>> \o r.queue,
                   served |-> r.served]

\* BaseResource._trigger_get of a container: pending gets are served from
\* the head of the queue; the scan stops at the first one that is not served
RECURSIVE ScanGet(_, _, _)
ScanGet(lv, q, served) ==
    IF q = <<>> THEN [level |-> lv, queue |-> q, served |-> served]
    ELSE IF CanGet(lv, Head(q).amount)
         THEN ScanGet(lv - Head(q).amount, Tail(q), Append(served, Head(q)))
         ELSE [level |-> lv, queue |-> q, served |-> served]

\* BaseResource._trigger_put of a container: pending puts, likewise
RECURSIVE ScanPut(_, _, _)
ScanPut(lv, q, done) ==
    IF q = <<>> THEN [level |-> lv, queue |-> q, done |-> done]
    ELSE IF CanPut(lv, Head(q))
         THEN ScanPut(lv + Head(q), Tail(q), done + 1)
         ELSE [level |-> lv, queue |-> q, done |-> done]

\* the events of the gets (puts) a scan has served, in the order served
GetEvents(t, served) ==
    [k \in 1 .. Len(served) |->
        Event(t, NORMAL, "GetDone", served[k].cust[1], served[k].cust[2])]

PutEvents(t, c, done) ==
    [k \in 1 .. done |-> Event(t, NORMAL, "PutDone", c, -1)]

----------------------------------------------------------------------------
(* Initial state: lines 99-134, up to the call of env0.run *)

\* the events es numbered in the order they are scheduled
Numbered(es) == [k \in 1 .. Len(es) |-> [es[k] EXCEPT !.eid = k]]

\* mutant of InitQueue: env0.run() is called without until
InitQueueNoUntil ==
    Numbered(
    [k \in 1 .. NumClinics |-> Event(0, URGENT, "InitControl", k - 1, -1)]
    \o [k \in 1 .. NumClinics |-> Event(0, URGENT, "InitGenerator", k - 1, -1)])

\* lines 108-134: the processes started, in the order of their start, and
\* the until event of env0.run (simpy schedules it URGENT)
InitQueue ==
    Numbered(
    [k \in 1 .. NumClinics |-> Event(0, URGENT, "InitControl", k - 1, -1)]
    \o [k \in 1 .. NumClinics |-> Event(0, URGENT, "InitGenerator", k - 1, -1)]
    \o <<Event(simulation_time, URGENT, "Until", -1, -1)>>)

Init ==
    /\ now = 0
    /\ queue = InitQueue
    /\ running = TRUE
    /\ crashed = FALSE
    /\ level = [c \in Clinics |-> clinic_med_supply]
    /\ getq = [c \in Clinics |-> <<>>]
    /\ putq = [c \in Clinics |-> <<>>]
    /\ users = <<>>
    /\ reqq = <<>>
    /\ control = [c \in Clinics |-> "Start"]
    /\ truck = [c \in Clinics |-> "Idle"]
    /\ nextCust = [c \in Clinics |-> 0]
    /\ cust = <<>>
    /\ nreq = 0
    /\ dispatched = [c \in Clinics |-> -1]
    /\ restock = [c \in Clinics |-> 0]
    /\ last = Event(0, URGENT, "None", -1, -1)
    /\ steps = 0

----------------------------------------------------------------------------
(* env.step(): pop the first event, set the clock, run its callbacks *)

Ready(kind) ==
    /\ running
    /\ queue # <<>>
    /\ Head(queue).kind = kind
    /\ Head(queue).time <= MaxTime

\* the part of every step that is the same: the pop and the clock
Pop ==
    /\ now' = Head(queue).time
    /\ last' = Head(queue)
    /\ steps' = steps + 1

----------------------------------------------------------------------------
(* clinic_control *)

\* mutant of NeedsRestock: the level as a share of the capacity, compared
\* with the threshold as a fraction, both by integer division
NeedsRestockIntDiv(lv) ==
    (lv \div clinic_med_supply) < (THRESHOLD \div 100) \/ lv = 0

\* mutant of NeedsRestock: the threshold is taken as a multiple of the
\* capacity
NeedsRestockScaled(lv) == lv < THRESHOLD * clinic_med_supply \/ lv = 0

\* mutant of NeedsRestock: a level equal to the threshold counts as low
NeedsRestockInclusive(lv) == lv <= THRESHOLD \/ lv = 0

\* line 64
NeedsRestock(lv) == lv < THRESHOLD \/ lv = 0

\* mutant of ControlBody: the truck is started but not waited for
\* (env.process(...) without yield), the loop goes on to its timeout
ControlBodyNoAwait(c) ==
    LET t == Head(queue).time IN
    IF NeedsRestock(level[c])
    THEN /\ control' = [control EXCEPT ![c] = "Waiting"]
         /\ truck' = [truck EXCEPT ![c] = "Spawned"]
         /\ dispatched' = [dispatched EXCEPT ![c] = level[c]]
         /\ queue' = ScheduleAll(Tail(queue),
                        <<Event(t, URGENT, "InitTruck", c, -1),
                          Event(t + check_interval, NORMAL, "ControlTimeout", c, -1)>>)
    ELSE /\ control' = [control EXCEPT ![c] = "Waiting"]
         /\ truck' = truck
         /\ dispatched' = dispatched
         /\ queue' = Schedule(Tail(queue),
                        Event(t + check_interval, NORMAL, "ControlTimeout", c, -1))

\* lines 63-70, one pass of the loop up to its yield
ControlBody(c) ==
    LET t == Head(queue).time IN
    IF NeedsRestock(level[c])
    THEN /\ control' = [control EXCEPT ![c] = "AwaitingDelivery"]
         /\ truck' = [truck EXCEPT ![c] = "Spawned"]
         /\ dispatched' = [dispatched EXCEPT ![c] = level[c]]
         /\ queue' = Schedule(Tail(queue), Event(t, URGENT, "InitTruck", c, -1))
    ELSE /\ control' = [control EXCEPT ![c] = "Waiting"]
         /\ truck' = truck
         /\ dispatched' = dispatched
         /\ queue' = Schedule(Tail(queue),
                        Event(t + check_interval, NORMAL, "ControlTimeout", c, -1))

\* the process is started: its first check
ControlStart ==
    /\ Ready("InitControl")
    /\ Pop
    /\ ControlBody(Head(queue).clinic)
    /\ UNCHANGED <<running, crashed, level, getq, putq, users, reqq,
                   nextCust, cust, nreq, restock>>

\* the timeout of line 70 has elapsed: the next check
ControlCheck ==
    /\ Ready("ControlTimeout")
    /\ Pop
    /\ ControlBody(Head(queue).clinic)
    /\ UNCHANGED <<running, crashed, level, getq, putq, users, reqq,
                   nextCust, cust, nreq, restock>>

\* the truck process has ended: line 68 returns, line 70 waits
ControlResume ==
    /\ Ready("TruckDone")
    /\ Pop
    /\ LET c == Head(queue).clinic
           t == Head(queue).time
       IN  /\ control' = [control EXCEPT ![c] = "Waiting"]
           /\ truck' = [truck EXCEPT ![c] = "Idle"]
           /\ queue' = Schedule(Tail(queue),
                          Event(t + check_interval, NORMAL, "ControlTimeout", c, -1))
    /\ UNCHANGED <<running, crashed, level, getq, putq, users, reqq,
                   nextCust, cust, nreq, dispatched, restock>>

----------------------------------------------------------------------------
(* delivery_truck *)

\* lines 75-83: the delays drawn under road condition r, of the range of
\* that condition (between them two delays, 200 and 400, so that trucks
\* called together arrive in either order)
RoadDelays(r) ==
    IF r = 1 THEN {time_to_deliver[2]}
    ELSE IF r = 2 THEN {time_to_deliver_traffic[1]}
    ELSE {time_to_deliver_reroute[1], time_to_deliver_reroute[2]}

\* mutant of TruckAmount: the amount missing when the truck was called
TruckAmountAtDispatch(c) == clinic_med_supply - dispatched[c]

\* line 85
TruckAmount(c) == clinic_med_supply - level[c]

\* lines 75-83
TruckStart ==
    /\ Ready("InitTruck")
    /\ Pop
    /\ LET c == Head(queue).clinic
           t == Head(queue).time
       IN  \E r \in 1 .. 3 : \E d \in RoadDelays(r) :
             /\ truck' = [truck EXCEPT ![c] = "EnRoute"]
             /\ queue' = Schedule(Tail(queue),
                            Event(t + d, NORMAL, "TruckTimeout", c, -1))
    /\ UNCHANGED <<running, crashed, level, getq, putq, users, reqq,
                   control, nextCust, cust, nreq, dispatched, restock>>

\* lines 84-87: the truck arrives and puts; ContainerPut raises ValueError
\* for an amount <= 0, which ends the run with the exception
TruckArrive ==
    /\ Ready("TruckTimeout")
    /\ Pop
    /\ LET c == Head(queue).clinic
           t == Head(queue).time
           amount == TruckAmount(c)
           s == ScanPut(level[c], Append(putq[c], amount), 0)
       IN  IF amount <= 0
           THEN /\ crashed' = TRUE
                /\ running' = FALSE
                /\ queue' = Tail(queue)
                /\ UNCHANGED <<level, putq, truck, restock>>
           ELSE /\ level' = [level EXCEPT ![c] = s.level]
                /\ putq' = [putq EXCEPT ![c] = s.queue]
                /\ truck' = [truck EXCEPT ![c] = "Putting"]
                /\ restock' = [restock EXCEPT ![c] = amount]
                /\ queue' = ScheduleAll(Tail(queue), PutEvents(t, c, s.done))
                /\ UNCHANGED <<running, crashed>>
    /\ UNCHANGED <<getq, users, reqq, control, nextCust, cust, nreq,
                   dispatched>>

\* the put event is processed: the container serves pending gets, then the
\* truck process resumes and ends
TruckPutDone ==
    /\ Ready("PutDone")
    /\ Pop
    /\ LET c == Head(queue).clinic
           t == Head(queue).time
           s == ScanGet(level[c], getq[c], <<>>)
       IN  /\ level' = [level EXCEPT ![c] = s.level]
           /\ getq' = [getq EXCEPT ![c] = s.queue]
           /\ truck' = [truck EXCEPT ![c] = "Done"]
           /\ restock' = [restock EXCEPT ![c] = 0]
           /\ dispatched' = [dispatched EXCEPT ![c] = -1]
           /\ queue' = ScheduleAll(Tail(queue),
                          GetEvents(t, s.served)
                          \o <<Event(t, NORMAL, "TruckDone", c, -1)>>)
    /\ UNCHANGED <<running, crashed, putq, users, reqq, control,
                   nextCust, cust, nreq>>

----------------------------------------------------------------------------
(* customer_generator *)

\* the process is started: the first timeout of line 93
GeneratorStart ==
    /\ Ready("InitGenerator")
    /\ Pop
    /\ LET c == Head(queue).clinic
           t == Head(queue).time
       IN  \E d \in ArrivalChoices :
             queue' = Schedule(Tail(queue),
                         Event(t + d, NORMAL, "GenTimeout", c, -1))
    /\ UNCHANGED <<running, crashed, level, getq, putq, users, reqq,
                   control, truck, nextCust, cust, nreq, dispatched, restock>>

\* line 94 starts 'Customer i', then line 93 waits again
GeneratorSpawn ==
    /\ Ready("GenTimeout")
    /\ Pop
    /\ LET c == Head(queue).clinic
           t == Head(queue).time
           x == <<c, nextCust[c]>>
       IN  /\ nextCust' = [nextCust EXCEPT ![c] = @ + 1]
           /\ cust' = cust @@ (x :> [pc |-> "Started", liters |-> 0, ticket |-> -1])
           /\ \E d \in ArrivalChoices :
                queue' = ScheduleAll(Tail(queue),
                            <<Event(t, URGENT, "InitCustomer", c, x[2])>>
                            \o IF nextCust[c] + 1 < MaxCustomers
                               THEN <<Event(t + d, NORMAL, "GenTimeout", c, -1)>>
                               ELSE <<>>)
    /\ UNCHANGED <<running, crashed, level, getq, putq, users, reqq,
                   control, truck, nreq, dispatched, restock>>

----------------------------------------------------------------------------
(* customer *)

SetPc(x, pc) == [cust EXCEPT ![x].pc = pc]

\* the requests of the customers in granted have been triggered
MarkGranted(cu, granted) ==
    [x \in DOMAIN cu |->
        IF \E k \in 1 .. Len(granted) : granted[k] = x
        THEN [cu[x] EXCEPT !.pc = "Granted"]
        ELSE cu[x]]

\* lines 44-48: the customer arrives and requests the counter
CustomerArrive ==
    /\ Ready("InitCustomer")
    /\ Pop
    /\ LET x == <<Head(queue).clinic, Head(queue).idx>>
           t == Head(queue).time
           r == ResourceRequest(users, reqq, x)
       IN  /\ users' = r.users
           /\ reqq' = r.reqq
           /\ cust' = MarkGranted([cust EXCEPT ![x].pc = "Requesting",
                                               ![x].ticket = nreq],
                                  r.granted)
           /\ nreq' = nreq + 1
           /\ queue' = ScheduleAll(Tail(queue),
                          GrantEvents(t, r.granted))
    /\ UNCHANGED <<running, crashed, level, getq, putq, control, truck,
                   nextCust, dispatched, restock>>

\* mutant of CustomerGet: every generator was given the container of the
\* first clinic (lines 126-130), all customers get from it
CustomerGetFirstClinic ==
    /\ Ready("ReqGranted")
    /\ Pop
    /\ LET c == 0
           x == <<Head(queue).clinic, Head(queue).idx>>
           t == Head(queue).time
       IN  \E liters \in AmountChoices :
             LET s == ScanGet(level[c],
                              Append(getq[c], [cust |-> x, amount |-> liters]),
                              <<>>)
             IN  /\ level' = [level EXCEPT ![c] = s.level]
                 /\ getq' = [getq EXCEPT ![c] = s.queue]
                 /\ cust' = [cust EXCEPT ![x].pc = "Getting",
                                         ![x].liters = liters]
                 /\ queue' = ScheduleAll(Tail(queue), GetEvents(t, s.served))
    /\ UNCHANGED <<running, crashed, putq, users, reqq, control, truck,
                   nextCust, nreq, dispatched, restock>>

\* lines 48-52: the request event is processed, the customer draws its
\* amount and gets it from the container
CustomerGet ==
    /\ Ready("ReqGranted")
    /\ Pop
    /\ LET c == Head(queue).clinic
           x == <<c, Head(queue).idx>>
           t == Head(queue).time
       IN  \E liters \in AmountChoices :
             LET s == ScanGet(level[c],
                              Append(getq[c], [cust |-> x, amount |-> liters]),
                              <<>>)
             IN  /\ level' = [level EXCEPT ![c] = s.level]
                 /\ getq' = [getq EXCEPT ![c] = s.queue]
                 /\ cust' = [cust EXCEPT ![x].pc = "Getting",
                                         ![x].liters = liters]
                 /\ queue' = ScheduleAll(Tail(queue), GetEvents(t, s.served))
    /\ UNCHANGED <<running, crashed, putq, users, reqq, control, truck,
                   nextCust, nreq, dispatched, restock>>

\* mutant of CustomerBuy: the with block ends before the timeout, the
\* counter is released as soon as the medication is got
CustomerBuyReleased ==
    /\ Ready("GetDone")
    /\ Pop
    /\ LET c == Head(queue).clinic
           x == <<c, Head(queue).idx>>
           t == Head(queue).time
           s == ScanPut(level[c], putq[c], 0)
       IN  /\ level' = [level EXCEPT ![c] = s.level]
           /\ putq' = [putq EXCEPT ![c] = s.queue]
           /\ cust' = SetPc(x, "Buying")
           /\ users' = ResourceRelease(users, x)
           /\ queue' = ScheduleAll(Tail(queue),
                          PutEvents(t, c, s.done)
                          \o <<Event(t, NORMAL, "Release", c, x[2]),
                                Event(t + (cust[x].liters \div medication_buying_speed),
                                     NORMAL, "BuyTimeout", c, x[2])>>)
    /\ UNCHANGED <<running, crashed, getq, reqq, control, truck,
                   nextCust, nreq, dispatched, restock>>

\* line 55: the get event is processed (the container first serves pending
\* puts), the customer pays for liters / speed seconds
CustomerBuy ==
    /\ Ready("GetDone")
    /\ Pop
    /\ LET c == Head(queue).clinic
           x == <<c, Head(queue).idx>>
           t == Head(queue).time
           s == ScanPut(level[c], putq[c], 0)
       IN  /\ level' = [level EXCEPT ![c] = s.level]
           /\ putq' = [putq EXCEPT ![c] = s.queue]
           /\ cust' = SetPc(x, "Buying")
           /\ queue' = ScheduleAll(Tail(queue),
                          PutEvents(t, c, s.done)
                          \o <<Event(t + (cust[x].liters \div medication_buying_speed),
                                     NORMAL, "BuyTimeout", c, x[2])>>)
    /\ UNCHANGED <<running, crashed, getq, users, reqq, control, truck,
                   nextCust, nreq, dispatched, restock>>

\* lines 57 and the exit of the with block: the counter is released and the
\* process ends
CustomerLeave ==
    /\ Ready("BuyTimeout")
    /\ Pop
    /\ LET c == Head(queue).clinic
           x == <<c, Head(queue).idx>>
           t == Head(queue).time
       IN  /\ users' = ResourceRelease(users, x)
           /\ cust' = [y \in DOMAIN cust \ {x} |-> cust[y]]
           /\ queue' = ScheduleAll(Tail(queue),
                          <<Event(t, NORMAL, "Release", c, x[2]),
                            Event(t, NORMAL, "CustomerDone", c, x[2])>>)
    /\ UNCHANGED <<running, crashed, level, getq, putq, reqq, control,
                   truck, nextCust, nreq, dispatched, restock>>

\* the release event is processed: the resource grants the next request
CounterRelease ==
    /\ Ready("Release")
    /\ Pop
    /\ LET t == Head(queue).time
           r == ResourceTriggerPut(users, reqq)
       IN  /\ users' = r.users
           /\ reqq' = r.reqq
           /\ cust' = MarkGranted(cust, r.granted)
           /\ queue' = ScheduleAll(Tail(queue),
                          GrantEvents(t, r.granted))
    /\ UNCHANGED <<running, crashed, level, getq, putq, control, truck,
                   nextCust, nreq, dispatched, restock>>

\* the event of the ended customer process is processed: nobody waits for it
CustomerDone ==
    /\ Ready("CustomerDone")
    /\ Pop
    /\ queue' = Tail(queue)
    /\ UNCHANGED <<running, crashed, level, getq, putq, users, reqq,
                   control, truck, nextCust, cust, nreq, dispatched, restock>>

----------------------------------------------------------------------------
(* env0.run(until=simulation_time), line 134 *)

\* the until event (scheduled URGENT at simulation_time) stops the run;
\* whatever is still queued is abandoned
StopSimulation ==
    /\ Ready("Until")
    /\ Pop
    /\ running' = FALSE
    /\ queue' = Tail(queue)
    /\ UNCHANGED <<crashed, level, getq, putq, users, reqq, control, truck,
                   nextCust, cust, nreq, dispatched, restock>>

Next ==
    \/ ControlStart
    \/ ControlCheck
    \/ ControlResume
    \/ TruckStart
    \/ TruckArrive
    \/ TruckPutDone
    \/ GeneratorStart
    \/ GeneratorSpawn
    \/ CustomerArrive
    \/ CustomerGet
    \/ CustomerBuy
    \/ CustomerLeave
    \/ CounterRelease
    \/ CustomerDone
    \/ StopSimulation

Spec == Init /\ [][Next]_vars

----------------------------------------------------------------------------
(* NoHorizonSpec: the program run by env0.run() without until: no event     *)
(* ends the run.  FairNoHorizonSpec adds that run() goes on processing the  *)
(* next event as long as one is queued.                                     *)

NoHorizonInit ==
    /\ now = 0
    /\ queue = SubSeq(InitQueue, 1, Len(InitQueue) - 1)
    /\ running = TRUE
    /\ crashed = FALSE
    /\ level = [c \in Clinics |-> clinic_med_supply]
    /\ getq = [c \in Clinics |-> <<>>]
    /\ putq = [c \in Clinics |-> <<>>]
    /\ users = <<>>
    /\ reqq = <<>>
    /\ control = [c \in Clinics |-> "Start"]
    /\ truck = [c \in Clinics |-> "Idle"]
    /\ nextCust = [c \in Clinics |-> 0]
    /\ cust = <<>>
    /\ nreq = 0
    /\ dispatched = [c \in Clinics |-> -1]
    /\ restock = [c \in Clinics |-> 0]
    /\ last = Event(0, URGENT, "None", -1, -1)
    /\ steps = 0

NoHorizonNext ==
    \/ ControlStart
    \/ ControlCheck
    \/ ControlResume
    \/ TruckStart
    \/ TruckArrive
    \/ TruckPutDone
    \/ GeneratorStart
    \/ GeneratorSpawn
    \/ CustomerArrive
    \/ CustomerGet
    \/ CustomerBuy
    \/ CustomerLeave
    \/ CounterRelease
    \/ CustomerDone

NoHorizonSpec == NoHorizonInit /\ [][NoHorizonNext]_vars

FairNoHorizonSpec == NoHorizonSpec /\ WF_vars(NoHorizonNext)

----------------------------------------------------------------------------
(* ContainerSpec: one container, built empty, used directly by processes    *)
(* that get and put without the counter, so that gets queue behind each     *)
(* other.  The container and the event queue are those of the program.      *)

TheContainer == 0

\* the amounts the processes of ContainerSpec get and put
ContainerAmounts == {3, 5}

\* the container is built with init units, nothing is scheduled
ContainerBuilt(init) ==
    /\ now = 0
    /\ queue = <<>>
    /\ running = TRUE
    /\ crashed = FALSE
    /\ level = [c \in Clinics |-> IF c = TheContainer THEN init ELSE 0]
    /\ getq = [c \in Clinics |-> <<>>]
    /\ putq = [c \in Clinics |-> <<>>]
    /\ users = <<>>
    /\ reqq = <<>>
    /\ control = [c \in Clinics |-> "Start"]
    /\ truck = [c \in Clinics |-> "Idle"]
    /\ nextCust = [c \in Clinics |-> 0]
    /\ cust = <<>>
    /\ nreq = 0
    /\ dispatched = [c \in Clinics |-> -1]
    /\ restock = [c \in Clinics |-> 0]
    /\ last = Event(0, URGENT, "None", -1, -1)
    /\ steps = 0

ContainerInit == ContainerBuilt(0)

\* a process calls medication.get(amount), as line 52 does
ContainerGet ==
    /\ steps' = steps
    /\ nextCust[TheContainer] < MaxCustomers
    /\ Len(getq[TheContainer]) < MaxPending
    /\ \E amount \in ContainerAmounts :
         LET c == TheContainer
             x == <<c, nextCust[c]>>
             s == ScanGet(level[c],
                          Append(getq[c], [cust |-> x, amount |-> amount]),
                          <<>>)
         IN  /\ level' = [level EXCEPT ![c] = s.level]
             /\ getq' = [getq EXCEPT ![c] = s.queue]
             /\ cust' = cust @@ (x :> [pc |-> "Getting", liters |-> amount,
                                       ticket |-> nextCust[c]])
             /\ nextCust' = [nextCust EXCEPT ![c] = @ + 1]
             /\ queue' = ScheduleAll(queue, GetEvents(now, s.served))
             /\ last' = Event(now, NORMAL, "Get", c, x[2])
    /\ UNCHANGED <<now, running, crashed, putq, users, reqq, control, truck,
                   nreq, dispatched, restock>>

\* the put of amount on the container of ContainerSpec
PutCall(amount) ==
    LET c == TheContainer
        s == ScanPut(level[c], Append(putq[c], amount), 0)
    IN  /\ steps' = steps
        /\ level' = [level EXCEPT ![c] = s.level]
        /\ putq' = [putq EXCEPT ![c] = s.queue]
        /\ restock' = [restock EXCEPT ![c] = amount]
        /\ queue' = ScheduleAll(queue, PutEvents(now, c, s.done))
        /\ last' = Event(now, NORMAL, "Put", c, -1)
        /\ UNCHANGED <<now, running, crashed, getq, users, reqq, control,
                       truck, nextCust, cust, nreq, dispatched>>

\* a process calls medication.put(amount), as line 87 does, while gets are
\* pending and no other put is under way
ContainerPut ==
    /\ getq[TheContainer] # <<>>
    /\ putq[TheContainer] = <<>>
    /\ \A k \in 1 .. Len(queue) : queue[k].kind # "PutDone"
    /\ \E amount \in ContainerAmounts : PutCall(amount)

\* the put event is processed: the container serves pending gets
ContainerPutDone ==
    /\ Ready("PutDone")
    /\ Pop
    /\ LET c == Head(queue).clinic
           t == Head(queue).time
           s == ScanGet(level[c], getq[c], <<>>)
       IN  /\ level' = [level EXCEPT ![c] = s.level]
           /\ getq' = [getq EXCEPT ![c] = s.queue]
           /\ queue' = ScheduleAll(Tail(queue), GetEvents(t, s.served))
    /\ UNCHANGED <<running, crashed, putq, users, reqq, control, truck,
                   nextCust, cust, nreq, dispatched, restock>>

\* the get event is processed: the container serves pending puts, the
\* process that got its amount goes on and ends
ContainerGetDone ==
    /\ Ready("GetDone")
    /\ Pop
    /\ LET c == Head(queue).clinic
           x == <<c, Head(queue).idx>>
           t == Head(queue).time
           s == ScanPut(level[c], putq[c], 0)
       IN  /\ level' = [level EXCEPT ![c] = s.level]
           /\ putq' = [putq EXCEPT ![c] = s.queue]
           /\ cust' = [y \in DOMAIN cust \ {x} |-> cust[y]]
           /\ queue' = ScheduleAll(Tail(queue), PutEvents(t, c, s.done))
    /\ UNCHANGED <<running, crashed, getq, users, reqq, control, truck,
                   nextCust, nreq, dispatched, restock>>

ContainerNext ==
    \/ ContainerGet
    \/ ContainerPut
    \/ ContainerPutDone
    \/ ContainerGetDone

ContainerSpec == ContainerInit /\ [][ContainerNext]_vars

----------------------------------------------------------------------------
(* FullContainerSpec: the same container, built nearly full, so that a put  *)
(* meets a container without room for its amount.                           *)

\* the levels the container is built with
FullInits == {clinic_med_supply - 4, clinic_med_supply - 2}

\* the room left in a container that counts as nearly full
NearlyFull == 5

\* the amounts of a put: those of ContainerSpec, and the amount a truck
\* would bring (line 85)
PutAmounts(c) ==
    ContainerAmounts \cup (IF TruckAmount(c) > 0 THEN {TruckAmount(c)} ELSE {})

FullInit == \E init \in FullInits : ContainerBuilt(init)

\* a process calls medication.put(amount) on the nearly full container
\* while no other put is under way and every event has been processed
FullPut ==
    /\ clinic_med_supply - level[TheContainer] <= NearlyFull
    /\ putq[TheContainer] = <<>>
    /\ queue = <<>>
    /\ \E amount \in PutAmounts(TheContainer) : PutCall(amount)

\* a process calls medication.get(amount) once every event has been
\* processed
FullGet ==
    /\ queue = <<>>
    /\ ContainerGet

FullNext ==
    \/ FullGet
    \/ FullPut
    \/ ContainerPutDone
    \/ ContainerGetDone

FullContainerSpec == FullInit /\ [][FullNext]_vars

----------------------------------------------------------------------------
(* Properties *)

\* the customers that hold the counter: granted, not yet released
Holding == {users[k] : k \in 1 .. Len(users)}

\* the customers between the processing of their grant and their release
InBuying == {x \in DOMAIN cust : cust[x].pc \in {"Getting", "Buying"}}

\* C1: the level of every container stays within 0 .. capacity, whatever
\* gets and puts have happened
C1_LevelInRange ==
    \A c \in Clinics : 0 <= level[c] /\ level[c] <= clinic_med_supply

\* C1 witness: a clinic emptied by gets where a further get is waiting and
\* another clinic refilled to capacity by its truck
C1_Witness ==
    \E c, d \in Clinics :
        /\ level[c] = 0 /\ getq[c] # <<>>
        /\ level[d] = clinic_med_supply /\ truck[d] = "Putting"

\* C2: the counter is held by at most capacity (1) requests, and at most
\* that many customers of all clinics together are between grant and release
C2_CounterExclusive ==
    /\ 0 <= Len(users) /\ Len(users) <= counter_capacity
    /\ Cardinality(Holding) <= counter_capacity
    /\ Cardinality(InBuying) <= counter_capacity
    /\ InBuying \subseteq Holding

\* C2 witness: the counter is held by a customer of one clinic while a
\* customer of another clinic waits for it
C2_Witness ==
    /\ Len(users) = counter_capacity
    /\ \E x \in InBuying : \E k \in 1 .. Len(reqq) : reqq[k][1] # x[1]

\* C3: right after the step in which a truck arrives and puts, the level of
\* its container is the capacity and the put is not left pending
C3_RestockExact ==
    (last.kind = "TruckTimeout" /\ ~crashed) =>
        /\ level[last.clinic] = clinic_med_supply
        /\ putq[last.clinic] = <<>>

\* C3 witness: a truck has put more than was missing when it was called,
\* because a customer bought while it was under way
C3_Witness ==
    /\ last.kind = "TruckTimeout"
    /\ truck[last.clinic] = "Putting"
    /\ restock[last.clinic] > clinic_med_supply - dispatched[last.clinic]
    /\ level[last.clinic] = clinic_med_supply

\* the next event to be processed is the scheduled check of clinic c
CheckIsNext(c) ==
    /\ running
    /\ queue # <<>>
    /\ Head(queue).kind = "ControlTimeout"
    /\ Head(queue).clinic = c

\* C4 as stated: once the level of a clinic is 9 a truck is called before
\* the next scheduled check of that clinic, so when that check is about to
\* run the truck is already under way
C4_TruckBeforeCheck ==
    \A c \in Clinics :
        (level[c] = 9 /\ control[c] = "Waiting" /\ CheckIsNext(c))
            => truck[c] # "Idle"

\* C4 amended: while the level of a clinic is 9 and its controller waits for
\* its next scheduled check, no truck is under way, and a step calls the
\* truck exactly if it is that check
C4_TruckAtCheck ==
    [][\A c \in Clinics :
          (level[c] = 9 /\ control[c] = "Waiting") =>
              /\ truck[c] = "Idle"
              /\ (truck'[c] # "Idle") <=> CheckIsNext(c)]_vars

\* C4 witness: a scheduled check has found the level at 9 and called the
\* truck
C4_Witness ==
    \E c \in Clinics :
        /\ last.kind = "ControlTimeout" /\ last.clinic = c
        /\ level[c] = 9
        /\ truck[c] = "Spawned"
        /\ control[c] = "AwaitingDelivery"

\* C5: right after an inspection of clinic c, a truck has been called
\* exactly if level < THRESHOLD percent of the capacity or level = 0;
\* otherwise the controller only waits check_interval for its next check
C5_DispatchIffLow ==
    last.kind \in {"InitControl", "ControlTimeout"} =>
        LET c == last.clinic
            low == level[c] * 100 < THRESHOLD * clinic_med_supply \/ level[c] = 0
            called == \E k \in 1 .. Len(queue) :
                         SameEvent(queue[k], Event(now, URGENT, "InitTruck", c, -1))
            waits == \E k \in 1 .. Len(queue) :
                         SameEvent(queue[k], Event(now + check_interval, NORMAL,
                                                   "ControlTimeout", c, -1))
        IN  IF low
            THEN /\ truck[c] = "Spawned" /\ control[c] = "AwaitingDelivery"
                 /\ called /\ ~waits
            ELSE /\ truck[c] = "Idle" /\ control[c] = "Waiting"
                 /\ waits /\ ~called

\* C5 witness: two inspections at the same time, one that found the level
\* just at the threshold and only waits, one that found it below and called
\* the truck
C5_Witness ==
    \E c, d \in Clinics :
        /\ last.kind = "ControlTimeout" /\ last.clinic = d
        /\ level[c] = THRESHOLD /\ control[c] = "Waiting" /\ truck[c] = "Idle"
        /\ level[d] < THRESHOLD /\ level[d] > 0 /\ truck[d] = "Spawned"
        /\ now = check_interval

\* customer x has been granted the counter (and has not left yet)
HasBeenGranted(x) == cust[x].pc \in {"Granted", "Getting", "Buying"}

\* C6: the counter is granted in the order of the requests, whatever the
\* clinics: the customers waiting for it are queued in the order of their
\* requests, and none of them has requested it before a customer that has
\* been granted it
C6_CounterFifo ==
    /\ \A k \in 1 .. Len(reqq) - 1 :
          cust[reqq[k]].ticket < cust[reqq[k + 1]].ticket
    /\ \A y \in DOMAIN cust :
          IF HasBeenGranted(y)
          THEN reqq # <<>> => cust[y].ticket < cust[Head(reqq)].ticket
          ELSE cust[y].pc = "Requesting" =>
                   \E k \in 1 .. Len(reqq) : reqq[k] = y

\* C6 witness: a release has just granted the counter to a customer that
\* waited, while customers of its own and of another clinic that requested
\* later still wait
C6_Witness ==
    /\ last.kind = "Release"
    /\ \E x \in Holding :
         /\ cust[x].pc = "Granted"
         /\ \E j, k \in 1 .. Len(reqq) :
              /\ reqq[j][1] = x[1] /\ reqq[k][1] # x[1]
              /\ cust[reqq[j]].ticket > cust[x].ticket
              /\ cust[reqq[k]].ticket > cust[x].ticket

\* the next step processes a release of the counter that unblocks the
\* customer at the head of the wait queue
ReleaseUnblocks ==
    /\ running
    /\ queue # <<>>
    /\ Head(queue).kind = "Release"
    /\ Len(users) < counter_capacity
    /\ reqq # <<>>

\* C10: when a release unblocks a waiting customer, the event that resumes
\* it is queued at the current time: behind every event already queued at
\* exactly that time, ahead of every event queued for a later time
C10_ZeroDelayResume ==
    [][ReleaseUnblocks =>
          LET t == Head(queue).time
              x == Head(reqq)
              same == SelectSeq(Tail(queue), LAMBDA f : f.time = t)
              later == SelectSeq(Tail(queue), LAMBDA f : f.time > t)
          IN  /\ now' = t
              /\ Len(queue') = Len(Tail(queue)) + 1
              /\ SubSeq(queue', 1, Len(same)) = same
              /\ SameEvent(queue'[Len(same) + 1],
                           Event(t, NORMAL, "ReqGranted", x[1], x[2]))
              /\ SubSeq(queue', Len(same) + 2, Len(queue')) = later
              /\ Tail(queue) = same \o later]_vars

\* C10 witness: a release has just unblocked a customer, whose resumption
\* is queued behind an event of the same time and ahead of a later one
C10_Witness ==
    /\ last.kind = "Release"
    /\ \E k \in 2 .. Len(queue) - 1 :
         /\ queue[k].kind = "ReqGranted" /\ queue[k].time = now
         /\ cust[<<queue[k].clinic, queue[k].idx>>].pc = "Granted"
         /\ queue[k - 1].time = now
         /\ queue[k + 1].time > now

\* the events one clinic can have processed by simulation_time: the start
\* of its two processes, seven per customer (its arrival is drawn at least
\* customer_arrival_min after the one before) and five per inspection
StepsPerClinic ==
    2 + 7 * (simulation_time \div customer_arrival_min)
      + 5 * (simulation_time \div check_interval + 1)

Pending(c) == {getq[c][k].cust : k \in 1 .. Len(getq[c])}

\* C7: pending gets are served in the order of their arrival, the first one
\* that cannot be served blocking those behind it: the pending gets are
\* queued in arrival order, none of them arrived before a get that has been
\* served, and after a put has been processed the first pending get, if
\* any, asks for more than the level
C7_HeadOfLine ==
    LET c == TheContainer IN
    /\ \A k \in 1 .. Len(getq[c]) - 1 :
          cust[getq[c][k].cust].ticket < cust[getq[c][k + 1].cust].ticket
    /\ \A y \in DOMAIN cust :
          (y \notin Pending(c) /\ getq[c] # <<>>)
              => cust[y].ticket < cust[Head(getq[c]).cust].ticket
    /\ (last.kind = "PutDone" /\ getq[c] # <<>>)
          => level[c] < Head(getq[c]).amount

\* C7 witness: gets of 5 and then 3 were pending at level 0, a put of 5 has
\* been processed: the get of 5 is served and the get of 3 still waits
C7_Witness ==
    LET c == TheContainer IN
    /\ last.kind = "PutDone" /\ steps = 1
    /\ restock[c] = 5 /\ level[c] = 0
    /\ Len(getq[c]) = 1
    /\ getq[c][1] = [cust |-> <<c, 1>>, amount |-> 3]
    /\ <<c, 0>> \in DOMAIN cust /\ cust[<<c, 0>>].liters = 5
    /\ \E k \in 1 .. Len(queue) :
         SameEvent(queue[k], Event(now, NORMAL, "GetDone", c, 0))

\* event e is processed ahead of event f by due time, then ordinal
AheadByOrdinal(e, f) ==
    \/ e.time < f.time
    \/ e.time = f.time /\ e.eid < f.eid

\* event e is processed ahead of event f by due time, then priority, then
\* ordinal
AheadByPriorityOrdinal(e, f) ==
    \/ e.time < f.time
    \/ e.time = f.time /\ e.prio < f.prio
    \/ e.time = f.time /\ e.prio = f.prio /\ e.eid < f.eid

\* C11 as stated: the event processed next is not due before the current
\* time, and of the queued events it is the one due first, of those due at
\* the same time the one scheduled first
C11_FifoByOrdinal ==
    queue # <<>> =>
        /\ now <= Head(queue).time
        /\ \A k \in 2 .. Len(queue) : AheadByOrdinal(Head(queue), queue[k])

\* C11, amended: the event processed next is not due before the current
\* time, so that time never goes back; the queued events are processed in
\* the order of their due time, those due at the same time an urgent one
\* (the start of a process, the end of the run) ahead of the normal ones,
\* and those of the same time and priority in the order they were scheduled
C11_FifoByPriorityOrdinal ==
    queue # <<>> =>
        /\ now <= Head(queue).time
        /\ \A k \in 1 .. Len(queue) - 1 :
              AheadByPriorityOrdinal(queue[k], queue[k + 1])

\* C11 witness: two generators were due at the same time; the one scheduled
\* first has been processed, the other is still queued, and the start of
\* the customer just scheduled is queued ahead of it
C11_Witness ==
    /\ last.kind = "GenTimeout"
    /\ Len(queue) >= 2
    /\ Head(queue).kind = "InitCustomer" /\ Head(queue).time = now
    /\ queue[2].kind = "GenTimeout" /\ queue[2].time = now
    /\ last.eid < queue[2].eid /\ queue[2].eid < Head(queue).eid

\* the put event of container c is queued for the current time
PutTriggered(c) ==
    \E k \in 1 .. Len(queue) :
        queue[k].kind = "PutDone" /\ queue[k].clinic = c /\ queue[k].time = now

Queued(c, kinds) ==
    Cardinality({k \in 1 .. Len(queue) :
                    queue[k].clinic = c /\ queue[k].kind \in kinds})

TruckKinds == {"InitTruck", "TruckTimeout", "PutDone", "TruckDone"}

CheckKinds == {"InitControl", "ControlTimeout"}

\* C13: a clinic has at most one truck under way; while it is, the
\* controller waits for it and no check of that clinic is scheduled; when
\* the truck has ended the controller schedules its next check a full
\* check_interval later
C13_OneTruckPerClinic ==
    \A c \in Clinics :
        /\ Queued(c, TruckKinds) <= 1
        /\ Queued(c, CheckKinds) <= 1
        /\ truck[c] = "Idle" => Queued(c, TruckKinds) = 0
        /\ truck[c] # "Idle" =>
              /\ control[c] = "AwaitingDelivery"
              /\ Queued(c, CheckKinds) = 0
              /\ Queued(c, TruckKinds) = 1
        /\ (last.kind = "TruckDone" /\ last.clinic = c) =>
              /\ truck[c] = "Idle" /\ control[c] = "Waiting"
              /\ \E k \in 1 .. Len(queue) :
                    SameEvent(queue[k], Event(now + check_interval, NORMAL,
                                              "ControlTimeout", c, -1))

\* C13 witness: the truck of a clinic has ended after its put, the
\* controller has resumed and waits a full interval for its next check
C13_Witness ==
    \E c \in Clinics :
        /\ last.kind = "TruckDone" /\ last.clinic = c
        /\ control[c] = "Waiting" /\ truck[c] = "Idle"
        /\ Queued(c, CheckKinds) = 1 /\ Queued(c, TruckKinds) = 0
        /\ now > check_interval

\* customer x has requested the counter and not yet released it
AtCounter(x) == x \in DOMAIN cust /\ cust[x].pc # "Started"

\* no customer is at the counter: none waits for it, none holds it
CounterIdle ==
    /\ users = <<>> /\ reqq = <<>>
    /\ \A x \in DOMAIN cust : ~AtCounter(x)

\* C14: in a run without horizon, under fair scheduling, whenever customers
\* are at the counter (waiting for it, or holding it, also suspended in a
\* get at a depleted clinic) a time comes when all of them have been
\* granted it, have bought and have released it.  A customer is at the
\* counter once, so a customer who were never served would keep the counter
\* from ever being idle again.
C14_NoStarvation == (~CounterIdle) ~> CounterIdle

\* C14 witness: the customer holding the counter is suspended in its get at
\* a depleted clinic whose last check found stock enough, and other
\* customers wait for the counter
C14_Witness ==
    /\ now > check_interval
    /\ Len(users) = 1 /\ Len(reqq) >= 2
    /\ LET x == users[1]
       IN  /\ cust[x].pc = "Getting"
           /\ getq[x[1]] # <<>> /\ Head(getq[x[1]]).cust = x
           /\ level[x[1]] < cust[x].liters

\* the customer the event processed last belongs to
LastCustomer == <<last.clinic, last.idx>>

\* C15: a customer gets, waits for stock and pays while it holds the
\* counter, and releases it only when its purchase timeout has elapsed:
\* a customer that has been granted the counter holds it until it leaves;
\* every pending get is that of a customer holding the counter; the get is
\* issued when the grant is processed; when the get has been served the
\* timeout of liters / speed is set; and a customer leaves the holders of
\* the counter only in the step that processes that timeout
C15_CustomerOrder ==
    [][/\ \A x \in DOMAIN cust' :
             HasBeenGranted(x)' => x \in Holding'
       /\ \A c \in Clinics : Pending(c)' \subseteq Holding'
       /\ last'.kind = "ReqGranted" =>
             /\ LastCustomer' \in Holding /\ cust[LastCustomer'].pc = "Granted"
             /\ cust'[LastCustomer'].pc = "Getting"
       /\ last'.kind = "GetDone" =>
             /\ cust[LastCustomer'].pc = "Getting"
             /\ cust'[LastCustomer'].pc = "Buying"
             /\ \E k \in 1 .. Len(queue') :
                   SameEvent(queue'[k],
                       Event(now' + (cust[LastCustomer'].liters
                                        \div medication_buying_speed),
                             NORMAL, "BuyTimeout", last'.clinic, last'.idx))
       /\ \A x \in Holding \ Holding' :
             /\ last'.kind = "BuyTimeout" /\ LastCustomer' = x
             /\ cust[x].pc = "Buying"]_vars

\* C15 witness: a customer that was suspended in its get, holding the
\* counter, has been served by the truck's put and pays, still holding it
C15_Witness ==
    /\ last.kind = "GetDone"
    /\ truck[last.clinic] = "Done"
    /\ LastCustomer \in Holding
    /\ cust[LastCustomer].pc = "Buying"
    /\ reqq # <<>>

\* the customers that have been granted the counter and have not ended
GrantedAlive == {x \in DOMAIN cust : HasBeenGranted(x)}

\* C16: the counter is never leaked: the requests holding it are exactly
\* those of the customers that have been granted it and have not ended,
\* each once, so that nobody holds it when there is no such customer
C16_NoLeak ==
    /\ Holding = GrantedAlive
    /\ Len(users) = Cardinality(GrantedAlive)
    /\ GrantedAlive = {} => users = <<>>

\* C16 witness: a customer has just left and released the counter: nobody
\* holds it although other customers are waiting for it
C16_Witness ==
    /\ last.kind = "BuyTimeout"
    /\ LastCustomer \notin DOMAIN cust
    /\ users = <<>> /\ GrantedAlive = {}
    /\ reqq # <<>>

\* C17 as stated: whenever a get is pending on a container its level is
\* below the threshold
C17_BlockedBelowThreshold ==
    \A c \in Clinics : getq[c] # <<>> => level[c] < THRESHOLD

\* C17, amended: whenever a get is pending on a container, either the level
\* is below the amount asked for and below the threshold, or the truck has
\* just put (the level is the capacity) and its put event, which serves the
\* get, is queued for the current time while the controller still awaits
\* the truck; and an inspection of a clinic with a get pending calls a truck
C17_BlockedUntilPut ==
    \A c \in Clinics :
        getq[c] # <<>> =>
            /\ truck[c] # "Putting" =>
                  /\ level[c] < Head(getq[c]).amount
                  /\ level[c] < THRESHOLD
                  /\ NeedsRestock(level[c])
            /\ truck[c] = "Putting" =>
                  /\ level[c] = clinic_med_supply
                  /\ control[c] = "AwaitingDelivery"
                  /\ PutTriggered(c)
            /\ (last.kind \in CheckKinds /\ last.clinic = c) =>
                  truck[c] = "Spawned"

\* C17 witness: the controller has inspected a clinic where a customer is
\* suspended in its get, and has called a truck
C17_Witness ==
    /\ last.kind = "ControlTimeout"
    /\ getq[last.clinic] # <<>>
    /\ level[last.clinic] < Head(getq[last.clinic]).amount
    /\ truck[last.clinic] = "Spawned"

\* the customers with a get pending on any container
AllPending == UNION {Pending(c) : c \in Clinics}

\* C18: at most one get is pending over all containers together, that of
\* the customer holding the counter; no get queue is longer than 1
C18_OnePendingGet ==
    /\ \A c \in Clinics : Len(getq[c]) <= 1
    /\ Cardinality({c \in Clinics : getq[c] # <<>>}) <= 1
    /\ AllPending \subseteq Holding
    /\ Cardinality(AllPending) <= counter_capacity

\* C18 witness: one get is pending, at a depleted clinic, while a customer
\* of the same clinic and a customer of another clinic wait for the counter
C18_Witness ==
    \E c \in Clinics :
        /\ Len(getq[c]) = 1
        /\ users = <<Head(getq[c]).cust>>
        /\ \E k \in 1 .. Len(reqq) : reqq[k][1] = c
        /\ \E k \in 1 .. Len(reqq) : reqq[k][1] # c

\* an amount a container accepts in a get or a put
ValidAmount(a) == 0 < a /\ a <= clinic_med_supply

\* C19: no get and no put is ever made with an invalid amount and no
\* exception ends the run: a truck is called only at a level below the
\* threshold, the level does not rise while the truck is under way, so the
\* amount it would put is positive all along and the amount it has put was;
\* the amount of every get made is within 1 .. capacity
C19_AmountsValid ==
    /\ ~crashed
    /\ \A c \in Clinics :
          /\ truck[c] \in {"Spawned", "EnRoute"} =>
                /\ dispatched[c] < THRESHOLD
                /\ level[c] <= dispatched[c]
                /\ ValidAmount(TruckAmount(c))
          /\ truck[c] = "Putting" => ValidAmount(restock[c])
          /\ \A k \in 1 .. Len(getq[c]) : ValidAmount(getq[c][k].amount)
    /\ \A x \in InBuying : ValidAmount(cust[x].liters)

\* C19 witness: a truck called for an empty container has arrived and put
\* the whole capacity
C19_Witness ==
    /\ last.kind = "TruckTimeout"
    /\ truck[last.clinic] = "Putting"
    /\ dispatched[last.clinic] = 0
    /\ restock[last.clinic] = clinic_med_supply
    /\ ~crashed

\* C20: stock is per clinic.  In every step the level of a container
\* changes only if the event processed is one of its own clinic; it falls
\* only by the amount of a get of a customer of that clinic, served at the
\* call or, for a pending get, when the put event is processed; it rises
\* only at the put of the truck of that clinic, to the capacity
C20_StockPerClinic ==
    [][\A c \in Clinics :
          /\ level'[c] # level[c] => last'.clinic = c
          /\ level'[c] < level[c] =>
                \/ /\ last'.kind = "ReqGranted"
                   /\ level'[c] = level[c] - cust'[LastCustomer'].liters
                \/ /\ last'.kind = "PutDone"
                   /\ getq[c] # <<>> /\ Head(getq[c]).cust[1] = c
                   /\ level'[c] = level[c] - Head(getq[c]).amount
          /\ level'[c] > level[c] =>
                /\ last'.kind = "TruckTimeout"
                /\ truck[c] = "EnRoute" /\ control[c] = "AwaitingDelivery"
                /\ level'[c] = clinic_med_supply]_vars

\* C20 witness: a customer has got its amount from the container of its
\* clinic; the container of another clinic, untouched so far, is still full
C20_Witness ==
    /\ last.kind = "ReqGranted"
    /\ getq[last.clinic] = <<>>
    /\ level[last.clinic] = clinic_med_supply - cust[LastCustomer].liters
    /\ \E d \in Clinics \ {last.clinic} :
          level[d] = clinic_med_supply /\ truck[d] = "Idle" /\ nextCust[d] > 0

TypeOK ==
    /\ now \in 0 .. MaxTime
    /\ \A c \in Clinics : level[c] \in Int
====
